---- MODULE Spec2Model ----
(***************************************************************************)
(* Model of the moedelo-demo ingestion and retrieval scripts:              *)
(*   ingest_qdrant_cloud.py   split_text, ensure_collection, ingest_files  *)
(*   ingest_qdrant.py         ensure_collection, ingest_documents          *)
(*   create_collection_moedelo.py   main                                   *)
(*   demo_app.py              search_qdrant, ask_llm, handle_query         *)
(*   parser_moedelo.py        main                                         *)
(* The scripts share one Qdrant collection (COLLECTION_NAME is the same    *)
(* in all of them).  One script runs at a time; pc is its position.        *)
(*                                                                         *)
(* Strings are run-length encoded: a string is a sequence of runs <<c, n>> *)
(* (n >= 1 copies of character c) in which neighbouring runs differ in c,  *)
(* so that two strings are equal exactly when their encodings are.  This   *)
(* keeps CHUNK_SIZE and CHUNK_OVERLAP at the values of the source.         *)
(***************************************************************************)
EXTENDS Integers, Sequences, FiniteSets, TLC

\* ------------------------------------------------------------------ bounds
\* runs started, failures of external calls, passes of one split_text loop
MaxRuns == 2
MaxFaults == 1
MaxChunks == 4
\* links collect_article_links returns (limit=30 in the source)
MaxArticles == 3

\* ------------------------------------------------------ program constants
\* EMBEDDING_DIM is 1536 in ingest_qdrant_cloud.py and in ingest_qdrant.py;
\* RECREATE_DIM is the size create_collection_moedelo.py passes; NOT_FOUND is the
\* status ensure_collection of ingest_qdrant_cloud.py compares with.
CHUNK_SIZE == 800
CHUNK_OVERLAP == 100
EMBEDDING_DIM == 1536
RECREATE_DIM == 1536
NOT_FOUND == 404
\* parser_moedelo.py: the pause after an article, the least length of a text kept
SLEEP_BETWEEN_REQUESTS == 1
MIN_TEXT_LEN == 200

\* ----------------------------------------------------------------- strings
Whitespace == {" ", "\n"}

RECURSIVE StrLen(_)
StrLen(s) == IF s = <<>> THEN 0 ELSE Head(s)[2] + StrLen(Tail(s))

\* s + t
Cat(s, t) ==
  IF s = <<>> THEN t
  ELSE IF t = <<>> THEN s
  ELSE IF s[Len(s)][1] = t[1][1]
       THEN SubSeq(s, 1, Len(s) - 1)
              \o <<(<<t[1][1], s[Len(s)][2] + t[1][2]>>)>>
              \o Tail(t)
       ELSE s \o t

\* the string of the characters cs, in order
RECURSIVE Lit(_)
Lit(cs) == IF cs = <<>> THEN <<>> ELSE Cat(<<(<<Head(cs), 1>>)>>, Lit(Tail(cs)))

\* s[:k]
RECURSIVE Take(_, _)
Take(s, k) ==
  IF k <= 0 \/ s = <<>> THEN <<>>
  ELSE IF Head(s)[2] <= k
       THEN <<Head(s)>> \o Take(Tail(s), k - Head(s)[2])
       ELSE <<(<<Head(s)[1], k>>)>>

\* s[k:]
RECURSIVE Drop(_, _)
Drop(s, k) ==
  IF k <= 0 \/ s = <<>> THEN s
  ELSE IF Head(s)[2] <= k
       THEN Drop(Tail(s), k - Head(s)[2])
       ELSE <<(<<Head(s)[1], Head(s)[2] - k>>)>> \o Tail(s)

\* s[i:j] for 0 <= i
Slice(s, i, j) == Take(Drop(s, i), j - i)

\* s.rfind(c): the offset of the last c in s, -1 when there is none
RECURSIVE RFind(_, _)
RFind(s, c) ==
  IF s = <<>> THEN -1
  ELSE IF s[Len(s)][1] = c THEN StrLen(s) - 1
  ELSE RFind(SubSeq(s, 1, Len(s) - 1), c)

\* needle in hay
Contains(hay, needle) ==
  \E i \in 0..StrLen(hay) : Slice(hay, i, i + StrLen(needle)) = needle

\* " ".join(text.strip().split()), before the trailing separator is dropped
RECURSIVE JoinWords(_, _)
JoinWords(raw, acc) ==
  IF raw = <<>> THEN acc
  ELSE IF Head(raw)[1] \in Whitespace
       THEN JoinWords(Tail(raw),
                      IF acc = <<>> \/ acc[Len(acc)][1] = " "
                      THEN acc ELSE Cat(acc, Lit(<<" ">>)))
       ELSE JoinWords(Tail(raw), Cat(acc, <<Head(raw)>>))

Normalize(raw) ==
  LET j == JoinWords(raw, <<>>)
  IN IF j # <<>> /\ j[Len(j)][1] = " " THEN SubSeq(j, 1, Len(j) - 1) ELSE j

\* ------------------------------------------------------------------- inputs
\* raw texts a file of tokens/ may hold
T_blank == <<(<<" ", 2>>), (<<"\n", 1>>)>>
T_short == <<(<<"a", 3>>), (<<" ", 2>>), (<<"\n", 1>>), (<<"b", 2>>)>>
T_word  == <<(<<"a", 1>>), (<<" ", 1>>), (<<"b", 800>>)>>
T_long  == <<(<<"a", 300>>), (<<" ", 1>>), (<<"b", 400>>), (<<"\n", 1>>),
             (<<"a", 500>>), (<<" ", 1>>), (<<"b", 647>>)>>

\* os.path.basename of the i-th name of tokens/ in sorted order
FileName(i) == Cat(<<(<<"f", i>>)>>, Lit(<<".", "t", "x", "t">>))

\* the states tokens/ may be in: the texts of its files, in the order of their names
Dirs == {<<>>, <<T_short>>, <<T_blank, T_short>>, <<T_long>>, <<T_short, T_long>>,
         <<T_word>>}

DOCUMENTS == [i \in 1..10 |-> <<(<<"d", i>>)>>]

Queries == {DOCUMENTS[1], Normalize(T_short)}
TopKs == {1, 5}

\* ------------------------------------------------------------------- state
VARIABLES
  files,     \* tokens/*.txt: the raw text of the i-th name
  qdrant,    \* the collection COLLECTION_NAME in the vector store
  script,    \* the entry point that is running, "none" between runs
  pc,        \* its position
  runs,      \* runs started so far
  faults,    \* failures of external calls so far
  uuids,     \* uuid4() values drawn so far
  paths,     \* ingest_files: files
  idx,       \* ingest_files / ingest_documents: idx of the for loop
  text,      \* split_text: text (normalized)
  start,     \* split_text: start
  chunks,    \* split_text: chunks, then ingest_files: chunks
  ci,        \* ingest_files: chunks already taken by `for ch in chunks`
  vectors,   \* ingest_files: vectors
  payloads,  \* ingest_files: payloads
  ids,       \* ingest_files: ids
  pid,       \* ingest_files: pid
  points,    \* ingest_documents: points
  calls,     \* the external calls of the current run, in order
  items,     \* chunks / documents the current run has met so far
  mismatch,  \* the current run printed the dimension warning
  outcome,   \* how the last run ended
  result,    \* what search_qdrant returned last
  hist,      \* one summary per finished run
  hq,        \* demo_app.handle_query: its arguments, locals and return value
  scr        \* parser_moedelo.main: its locals and the requests and sleeps it made

filesLocals == <<paths, text, start, chunks, ci, vectors, payloads, ids, pid>>
locals == <<filesLocals, idx, points>>
vars == <<files, qdrant, script, pc, runs, faults, uuids, paths, idx, text, start,
          chunks, ci, vectors, payloads, ids, pid, points, calls, items, mismatch,
          outcome, result, hist, hq, scr>>

NoCollection == [exists |-> FALSE, size |-> 0, points |-> <<>>, creates |-> 0, deletes |-> 0]
EmptyCollection(dim) ==
  [exists |-> TRUE, size |-> dim, points |-> <<>>, creates |-> 1, deletes |-> 0]

\* search_qdrant was not called, raised, or returned (context, debug_info)
NoResult ==
  [status |-> "none", query_text |-> <<>>, top_k |-> 0, context |-> <<>>,
   debug_info |-> [found |-> FALSE, lines |-> <<>>]]
Raised(query_text, top_k) ==
  [NoResult EXCEPT !.status = "raised", !.query_text = query_text, !.top_k = top_k]
Returned(query_text, top_k, context, debug_info) ==
  [status |-> "returned", query_text |-> query_text, top_k |-> top_k,
   context |-> context, debug_info |-> debug_info]

\* handle_query was not called: None is <<>>, a value v is <<v>>
NoQuery ==
  [text_question |-> <<>>, audio_file |-> <<>>, question |-> <<>>,
   context |-> <<>>, debug_info |-> [found |-> FALSE, lines |-> <<>>],
   user_content |-> <<>>, returned |-> <<>>]

\* main of parser_moedelo.py was not run; disk names the articles whose files
\* tokens/ holds, in the order of their names: they are the last files of tokens/
NoScrape ==
  [articles |-> 0, i |-> 0, saved_paths |-> <<>>, log |-> <<>>, disk |-> <<>>]

Init ==
  /\ files \in Dirs
  /\ qdrant \in {NoCollection, EmptyCollection(EMBEDDING_DIM),
                  EmptyCollection(EMBEDDING_DIM \div 2)}
  /\ script = "none" /\ pc = "idle"
  /\ runs = 0 /\ faults = 0 /\ uuids = 0
  /\ paths = <<>> /\ idx = 0 /\ text = <<>> /\ start = 0 /\ chunks = <<>> /\ ci = 0
  /\ vectors = <<>> /\ payloads = <<>> /\ ids = <<>> /\ pid = 1
  /\ points = <<>>
  /\ calls = <<>> /\ items = 0 /\ mismatch = FALSE
  /\ outcome = "none" /\ result = NoResult /\ hist = <<>>
  /\ hq = NoQuery /\ scr = NoScrape

\* ---------------------------------------------------------- the vector store
\* what a call of the qdrant client can answer
Ok == [exc |-> "none", status_code |-> 200]
NotFound == [exc |-> "UnexpectedResponse", status_code |-> NOT_FOUND]
Conflict == [exc |-> "UnexpectedResponse", status_code |-> 409]
Failures == {[exc |-> "UnexpectedResponse", status_code |-> 500],
             [exc |-> "ResponseHandlingException", status_code |-> 0]}
\* what a call of the openai client can raise
APIError == [exc |-> "APIError", status_code |-> 500]

\* the failures the environment may still inject
MayFail == IF faults < MaxFaults THEN Failures ELSE {}
EmbedAnswers == {Ok} \cup (IF faults < MaxFaults THEN {APIError} ELSE {})

\* qdrant.get_collection(COLLECTION_NAME)
GetCollectionAnswers == (IF qdrant.exists THEN {Ok} ELSE {NotFound}) \cup MayFail

\* qdrant.create_collection(COLLECTION_NAME, VectorParams(size=EMBEDDING_DIM, ...))
CreateCollectionAnswers == (IF qdrant.exists THEN {Conflict} ELSE {Ok}) \cup MayFail
Created(q) ==
  [q EXCEPT !.exists = TRUE, !.size = EMBEDDING_DIM, !.points = <<>>,
            !.creates = @ + 1]

\* client.recreate_collection(...): delete_collection, then create_collection
Deleted(q) ==
  [q EXCEPT !.exists = FALSE, !.size = 0, !.points = <<>>,
            !.deletes = IF q.exists THEN @ + 1 ELSE @]
Recreated(q) ==
  [Deleted(q) EXCEPT !.exists = TRUE, !.size = RECREATE_DIM, !.creates = @ + 1]

\* client.embeddings.create(model=EMBEDDING_MODEL, input=t).data[0].embedding:
\* the same text gives the same vector, another text another vector
Embedding(t) == [of |-> t, size |-> EMBEDDING_DIM]

\* qdrant.upsert: every point replaces the point of the same id, or is added
UpsertAnswers(q, ps) ==
  (IF ~q.exists THEN {NotFound}
   ELSE IF \E i \in DOMAIN ps : ps[i].vector.size # q.size
        THEN {[exc |-> "UnexpectedResponse", status_code |-> 400]}
        ELSE {Ok}) \cup MayFail
Upserted(q, ps) ==
  LET new == {ps[i].id : i \in DOMAIN ps}
      at(id) == CHOOSE i \in DOMAIN ps :
                  ps[i].id = id /\ \A j \in DOMAIN ps : ps[j].id = id => j <= i
  IN [q EXCEPT !.points =
        [id \in DOMAIN q.points \cup new |->
           IF id \in new
           THEN [vector |-> ps[at(id)].vector, payload |-> ps[at(id)].payload]
           ELSE q.points[id]]]

\* --------------------------------------------------------------- bookkeeping
Call(op, answer, n) == [op |-> op, ok |-> answer = Ok, answer |-> answer, n |-> n]
Count(cs, op, ok) == Cardinality({i \in DOMAIN cs : cs[i].op = op /\ cs[i].ok = ok})
NPoints(q) == Cardinality(DOMAIN q.points)
Docs ==
  IF script = "ingest_files" THEN files
  ELSE IF script = "ingest_documents" THEN DOCUMENTS ELSE <<>>

\* the run ends: o is "returned" or names the call that raised
End(o, cs, q) ==
  /\ script' = "none" /\ pc' = "idle"
  /\ outcome' = o /\ calls' = cs /\ qdrant' = q
  /\ hist' = Append(hist, [script |-> script, docs |-> Docs, outcome |-> o,
                           failed |-> Count(cs, "embed", FALSE),
                           npoints |-> NPoints(q)])

Fault(a) == IF a \in Failures \cup {APIError} THEN faults + 1 ELSE faults

\* the run goes on at position p
Continue(p, cs, q) ==
  /\ pc' = p /\ calls' = cs /\ qdrant' = q
  /\ UNCHANGED <<script, outcome, hist>>

\* a run starts: the process is fresh
Begin(name, first, n) ==
  /\ pc = "idle" /\ runs < MaxRuns
  /\ script' = name /\ pc' = first /\ runs' = runs + 1
  /\ paths' = <<>> /\ idx' = 0 /\ text' = <<>> /\ start' = 0 /\ chunks' = <<>>
  /\ ci' = 0 /\ vectors' = <<>> /\ payloads' = <<>> /\ ids' = <<>> /\ pid' = 1
  /\ points' = <<>> /\ calls' = <<>> /\ items' = n /\ mismatch' = FALSE
  /\ outcome' = "running" /\ result' = NoResult
  /\ UNCHANGED <<files, qdrant, faults, uuids, hist>>

\* ------------------------------------------- ingest_qdrant_cloud.py: split_text
Max(a, b) == IF a >= b THEN a ELSE b

\* the cursor after a window that ends at end
NextStart(end) == Max(end - CHUNK_OVERLAP, end)

\* one pass of the while loop: the chunk it appends and the end it computes
Window(t, s) ==
  LET end == s + CHUNK_SIZE
      chunk == Slice(t, s, end)
      last_space == RFind(chunk, " ")
  IN IF end < StrLen(t) /\ last_space # -1
     THEN [chunk |-> Take(chunk, last_space), end |-> s + last_space]
     ELSE [chunk |-> chunk, end |-> end]

SplitTextLoop ==
  /\ script = "ingest_files" /\ pc = "while"
  /\ start < StrLen(text)
  /\ Len(chunks) < MaxChunks
  /\ chunks' = Append(chunks, Window(text, start).chunk)
  /\ start' = NextStart(Window(text, start).end)
  /\ UNCHANGED <<files, qdrant, script, pc, runs, faults, uuids, paths, idx, text,
                 ci, vectors, payloads, ids, pid, points, calls, items, mismatch,
                 outcome, result, hist>>

\* the loop is left, split_text returns chunks and ingest_files tests them
SplitTextReturn ==
  /\ script = "ingest_files" /\ pc = "while"
  /\ ~(start < StrLen(text))
  /\ pc' = IF chunks = <<>> THEN "files" ELSE "chunks"
  /\ ci' = 0
  /\ items' = items + Len(chunks)
  /\ UNCHANGED <<files, qdrant, script, runs, faults, uuids, paths, idx, text, start,
                 chunks, vectors, payloads, ids, pid, points, calls, mismatch,
                 outcome, result, hist>>

\* ------------------------------------ ingest_qdrant_cloud.py: ensure_collection
\* the answers of get_collection after which the collection is created
CloudTreatsAsAbsent(got) ==
  got.exc = "UnexpectedResponse" /\ got.status_code = NOT_FOUND

\* a variant that resets a present collection of another dimension
CloudResetsOnMismatch(q) == IF q.size # EMBEDDING_DIM THEN Recreated(q) ELSE q

\* the collection after ensure_collection found it present
CloudKeepsPresent(q) == q

EnsureCollectionCloud ==
  /\ script = "ingest_files" /\ pc = "ensure"
  /\ \E got \in GetCollectionAnswers :
       LET cs == Append(calls, Call("get_collection", got, 0))
       IN IF got = Ok
          THEN /\ mismatch' = (qdrant.size # EMBEDDING_DIM)
               /\ faults' = faults
               /\ Continue("glob", cs, CloudKeepsPresent(qdrant))
          ELSE IF CloudTreatsAsAbsent(got)
          THEN \E made \in CreateCollectionAnswers :
                 /\ mismatch' = mismatch
                 /\ faults' = Fault(made)
                 /\ IF made = Ok
                    THEN Continue("glob",
                                  Append(cs, Call("create_collection", made, 0)),
                                  Created(qdrant))
                    ELSE End("raised:create_collection",
                             Append(cs, Call("create_collection", made, 0)),
                             qdrant)
          ELSE /\ mismatch' = mismatch
               /\ faults' = Fault(got)
               /\ End("raised:get_collection", cs, qdrant)
  /\ UNCHANGED <<files, runs, uuids, locals, items, result>>

\* ----------------------------------------- ingest_qdrant_cloud.py: ingest_files
RECURSIVE Sorted(_)
Sorted(S) ==
  IF S = {} THEN <<>>
  ELSE LET m == CHOOSE x \in S : \A y \in S : x <= y
       IN <<m>> \o Sorted(S \ {m})

\* qmodels.Batch(ids=, vectors=, payloads=): the i-th point of the batch
Batch(is, vs, ps) ==
  [i \in 1..Len(is) |-> [id |-> is[i], vector |-> vs[i], payload |-> ps[i]]]

IngestFilesStart == Begin("ingest_files", "ensure", 0)

IngestFilesGlob ==
  /\ script = "ingest_files" /\ pc = "glob"
  /\ paths' = Sorted(DOMAIN files)
  /\ IF paths' = <<>>
     THEN End("returned", calls, qdrant)
     ELSE Continue("files", calls, qdrant)
  /\ vectors' = <<>> /\ payloads' = <<>> /\ ids' = <<>> /\ pid' = 1
  /\ UNCHANGED <<files, runs, faults, uuids, idx, text, start, chunks, ci, points,
                 items, mismatch, result>>

\* for idx, path in enumerate(files): read the file and enter split_text
IngestFilesNextFile ==
  /\ script = "ingest_files" /\ pc = "files"
  /\ idx < Len(paths)
  /\ idx' = idx + 1
  /\ text' = Normalize(files[paths[idx + 1]])
  /\ start' = 0 /\ chunks' = <<>> /\ ci' = 0
  /\ pc' = IF text' = <<>> THEN "files" ELSE "while"
  /\ UNCHANGED <<files, qdrant, script, runs, faults, uuids, paths, vectors,
                 payloads, ids, pid, points, calls, items, mismatch, outcome,
                 result, hist>>

\* a variant that has taken the id before embed_text raised
SkipChunkKeepsId(lists) ==
  [lists EXCEPT !.ids = Append(@, <<"int", lists.pid>>), !.pid = @ + 1]

\* the lists after embed_text raised for a chunk
SkipChunk(lists) == lists

\* for ch in chunks: embed ch, and keep it unless embed_text raised
IngestFilesEmbed ==
  /\ script = "ingest_files" /\ pc = "chunks"
  /\ ci < Len(chunks)
  /\ \E got \in EmbedAnswers :
       LET ch == chunks[ci + 1]
           kept == [vectors |-> Append(vectors, Embedding(ch)),
                    payloads |-> Append(payloads,
                                   [title |-> FileName(paths[idx]), content |-> ch]),
                    ids |-> Append(ids, <<"int", pid>>),
                    pid |-> pid + 1]
           now == IF got = Ok THEN kept
                  ELSE SkipChunk([vectors |-> vectors, payloads |-> payloads,
                                  ids |-> ids, pid |-> pid])
       IN /\ calls' = Append(calls, Call("embed", got, 0))
          /\ faults' = Fault(got)
          /\ vectors' = now.vectors /\ payloads' = now.payloads
          /\ ids' = now.ids /\ pid' = now.pid
  /\ ci' = ci + 1
  /\ pc' = IF ci + 1 = Len(chunks) THEN "files" ELSE "chunks"
  /\ UNCHANGED <<files, qdrant, script, runs, uuids, paths, idx, text, start, chunks,
                 points, items, mismatch, outcome, result, hist>>

IngestFilesUpsert ==
  /\ script = "ingest_files" /\ pc = "files"
  /\ idx = Len(paths)
  /\ \E got \in UpsertAnswers(qdrant, Batch(ids, vectors, payloads)) :
       /\ faults' = Fault(got)
       /\ IF got = Ok
          THEN End("returned", Append(calls, Call("upsert", got, Len(ids))),
                   Upserted(qdrant, Batch(ids, vectors, payloads)))
          ELSE End("raised:upsert", Append(calls, Call("upsert", got, Len(ids))),
                   qdrant)
  /\ UNCHANGED <<files, runs, uuids, locals, items, mismatch, result>>

\* ---------------------------------------- ingest_qdrant.py: ensure_collection
\* the answers of get_collection after which the collection is created
LocalTreatsAsAbsent(got) == got.exc # "none"

EnsureCollectionLocal ==
  /\ script = "ingest_documents" /\ pc = "ensure"
  /\ \E got \in GetCollectionAnswers :
       LET cs == Append(calls, Call("get_collection", got, 0))
       IN IF LocalTreatsAsAbsent(got)
          THEN \E made \in CreateCollectionAnswers :
                 /\ faults' = Fault(made)
                 /\ IF made = Ok
                    THEN Continue("docs",
                                  Append(cs, Call("create_collection", made, 0)),
                                  Created(qdrant))
                    ELSE End("raised:create_collection",
                             Append(cs, Call("create_collection", made, 0)),
                             qdrant)
          ELSE /\ faults' = faults
               /\ Continue("docs", cs, qdrant)
  /\ UNCHANGED <<files, runs, uuids, locals, items, mismatch, result>>

\* --------------------------------------------- ingest_qdrant.py: ingest_documents
SOURCE_TAG ==
  Lit(<<"m", "o", "e", "d", "e", "l", "o", "_", "r", "e", "f", "o", "r", "m", "a",
        "_", "2", "0", "2", "6", "_", "d", "e", "m", "o">>)

\* str(uuid.uuid4()): a value that was not drawn before
Uuid4 == <<"uuid", uuids + 1>>

IngestDocumentsStart == Begin("ingest_documents", "ensure", Len(DOCUMENTS))

\* for idx, doc in enumerate(DOCUMENTS): embed doc and build its point
IngestDocumentsEmbed ==
  /\ script = "ingest_documents" /\ pc = "docs"
  /\ idx < Len(DOCUMENTS)
  /\ \E got \in EmbedAnswers :
       LET doc == DOCUMENTS[idx + 1]
           cs == Append(calls, Call("embed", got, 0))
       IN /\ faults' = Fault(got)
          /\ IF got = Ok
             THEN /\ points' = Append(points,
                                  [id |-> Uuid4, vector |-> Embedding(doc),
                                   payload |-> [text |-> doc, source |-> SOURCE_TAG,
                                                index |-> idx + 1]])
                  /\ uuids' = uuids + 1
                  /\ idx' = idx + 1
                  /\ Continue("docs", cs, qdrant)
             ELSE /\ UNCHANGED <<points, uuids, idx>>
                  /\ End("raised:embed", cs, qdrant)
  /\ UNCHANGED <<files, runs, filesLocals, items, mismatch, result>>

IngestDocumentsUpsert ==
  /\ script = "ingest_documents" /\ pc = "docs"
  /\ idx = Len(DOCUMENTS)
  /\ \E got \in UpsertAnswers(qdrant, points) :
       /\ faults' = Fault(got)
       /\ IF got = Ok
          THEN End("returned", Append(calls, Call("upsert", got, Len(points))),
                   Upserted(qdrant, points))
          ELSE End("raised:upsert", Append(calls, Call("upsert", got, Len(points))),
                   qdrant)
  /\ UNCHANGED <<files, runs, uuids, locals, items, mismatch, result>>

\* ---------------------------------------------- create_collection_moedelo.py: main
CreateCollectionStart == Begin("create_collection_moedelo", "recreate", 0)

\* recreate_collection may fail before its delete or between delete and create
CreateCollectionMain ==
  /\ script = "create_collection_moedelo" /\ pc = "recreate"
  /\ \/ /\ faults' = faults
        /\ End("returned", Append(calls, Call("recreate_collection", Ok, 0)),
               Recreated(qdrant))
     \/ \E got \in MayFail, q \in {qdrant, Deleted(qdrant)} :
          /\ faults' = Fault(got)
          /\ End("raised:recreate_collection",
                 Append(calls, Call("recreate_collection", got, 0)), q)
  /\ UNCHANGED <<files, runs, uuids, locals, items, mismatch, result>>

\* ------------------------------------------------------ demo_app.py: search_qdrant
Digits == <<"1", "2", "3", "4", "5", "6", "7", "8", "9">>
Separator == Lit(<<"\n", "\n", "-", "-", "-", "\n", "\n">>)

\* payload.get(key, "")
Get(payload, key) == IF key \in DOMAIN payload THEN payload[key] ELSE <<>>

\* f"[{idx}] {title}\n{content}"
Piece(i, payload) ==
  Cat(Cat(Cat(Lit(<<"[", Digits[i], "]", " ">>), Get(payload, "title")),
          Lit(<<"\n">>)),
      Get(payload, "content"))

\* "\n\n---\n\n".join(context_chunks)
RECURSIVE Join(_)
Join(pieces) ==
  IF pieces = <<>> THEN <<>>
  ELSE IF Len(pieces) = 1 THEN pieces[1]
  ELSE Cat(Cat(pieces[1], Separator), Join(Tail(pieces)))

\* the ids of S in the store's order
IdBefore(a, b) == IF a[1] = b[1] THEN a[2] <= b[2] ELSE a[1] = "int"
RECURSIVE SortedIds(_)
SortedIds(S) ==
  IF S = {} THEN <<>>
  ELSE LET m == CHOOSE x \in S : \A y \in S : IdBefore(x, y)
       IN <<m>> \o SortedIds(S \ {m})

\* the rankings of equally scored points the store may give: any of them first
Orders(S) == IF S = {} THEN {<<>>} ELSE {<<f>> \o SortedIds(S \ {f}) : f \in S}

\* qdrant.query_points(query=vec, limit=top_k).points: the points nearest to vec
\* under cosine distance, the points that hold vec itself before the others
QueryPoints(q, vec, top_k) ==
  LET same == {id \in DOMAIN q.points : q.points[id].vector = vec}
      other == DOMAIN q.points \ same
  IN {SubSeq(s \o o, 1, IF Len(s \o o) < top_k THEN Len(s \o o) ELSE top_k) :
        s \in Orders(same), o \in Orders(other)}

\* what search_qdrant returns for the points res_points
SearchResult(q, res_points) ==
  IF res_points = <<>>
  THEN [context |-> <<>>, debug_info |-> [found |-> FALSE, lines |-> <<>>]]
  ELSE [context |-> Join([i \in 1..Len(res_points) |->
                            Piece(i, q.points[res_points[i]].payload)]),
        debug_info |-> [found |-> TRUE,
                        lines |-> [i \in 1..Len(res_points) |->
                                     [idx |-> i,
                                      title |-> Get(q.points[res_points[i]].payload,
                                                    "title")]]]]

SearchStart == Begin("search_qdrant", "search", 0)

SearchQdrant ==
  /\ script = "search_qdrant" /\ pc = "search"
  /\ \E query_text \in Queries, top_k \in TopKs, emb \in EmbedAnswers :
       LET cs == Append(calls, Call("embed", emb, 0))
       IN IF emb # Ok
          THEN /\ faults' = Fault(emb)
               /\ result' = Raised(query_text, top_k)
               /\ End("raised:embed", cs, qdrant)
          ELSE \E got \in (IF qdrant.exists THEN {Ok} ELSE {NotFound}) \cup MayFail :
                 /\ faults' = Fault(got)
                 /\ IF got # Ok
                    THEN /\ result' = Raised(query_text, top_k)
                         /\ End("raised:query_points",
                                Append(cs, Call("query_points", got, 0)), qdrant)
                    ELSE \E res_points \in
                              QueryPoints(qdrant, Embedding(query_text), top_k) :
                           /\ result' = Returned(query_text, top_k,
                                  SearchResult(qdrant, res_points).context,
                                  SearchResult(qdrant, res_points).debug_info)
                           /\ End("returned",
                                  Append(cs, Call("query_points", got,
                                                  Len(res_points))), qdrant)
  /\ UNCHANGED <<files, runs, uuids, locals, items, mismatch>>

\* ----------------------------------------------------------------- environment
\* between runs the files of tokens/ are written, replaced or removed
WriteFiles ==
  /\ pc = "idle" /\ runs < MaxRuns
  /\ files' \in Dirs \ {files}
  /\ UNCHANGED <<qdrant, script, pc, runs, faults, uuids, locals, calls, items,
                 mismatch, outcome, result, hist>>

\* the scripts of ingestion, reset and search leave handle_query and the scraper alone
Next ==
  \/ IngestFilesStart /\ UNCHANGED <<hq, scr>>
  \/ EnsureCollectionCloud /\ UNCHANGED <<hq, scr>>
  \/ IngestFilesGlob /\ UNCHANGED <<hq, scr>>
  \/ IngestFilesNextFile /\ UNCHANGED <<hq, scr>>
  \/ SplitTextLoop /\ UNCHANGED <<hq, scr>>
  \/ SplitTextReturn /\ UNCHANGED <<hq, scr>>
  \/ IngestFilesEmbed /\ UNCHANGED <<hq, scr>>
  \/ IngestFilesUpsert /\ UNCHANGED <<hq, scr>>
  \/ IngestDocumentsStart /\ UNCHANGED <<hq, scr>>
  \/ EnsureCollectionLocal /\ UNCHANGED <<hq, scr>>
  \/ IngestDocumentsEmbed /\ UNCHANGED <<hq, scr>>
  \/ IngestDocumentsUpsert /\ UNCHANGED <<hq, scr>>
  \/ CreateCollectionStart /\ UNCHANGED <<hq, scr>>
  \/ CreateCollectionMain /\ UNCHANGED <<hq, scr>>
  \/ SearchStart /\ UNCHANGED <<hq, scr>>
  \/ SearchQdrant /\ UNCHANGED <<hq, scr>>
  \/ WriteFiles /\ UNCHANGED <<hq, scr>>

Spec == Init /\ [][Next]_vars

\* ------------------------------------------------------ demo_app.py: handle_query
\* s.strip()
RECURSIVE LStrip(_)
LStrip(s) == IF s # <<>> /\ Head(s)[1] \in Whitespace THEN LStrip(Tail(s)) ELSE s
RECURSIVE RStrip(_)
RStrip(s) ==
  IF s # <<>> /\ s[Len(s)][1] \in Whitespace
  THEN RStrip(SubSeq(s, 1, Len(s) - 1)) ELSE s
Strip(s) == RStrip(LStrip(s))

\* x or "" for an Optional[str] x
OrEmpty(x) == IF x = <<>> THEN <<>> ELSE x[1]

\* the default of top_k in search_qdrant
TOP_K == 5

\* what handle_query may be given: None, "", blanks, a question between blanks,
\* a question of several words
TextQuestions ==
  {<<>>, <<(<<>>)>>, <<T_blank>>,
   <<Cat(Cat(Lit(<<" ">>), DOCUMENTS[1]), Lit(<<"\n">>))>>, <<T_short>>}
AudioFiles == {<<>>, <<(<<>>)>>, <<Lit(<<"q", ".", "w", "a", "v">>)>>}

\* result.text of a transcription, message.content of a completion (None is <<>>)
Transcripts == {<<>>, T_blank, Cat(DOCUMENTS[1], Lit(<<"\n">>))}
Completions == {<<>>, <<(<<>>)>>, <<Lit(<<" ", "<answer>", "\n">>)>>}

\* the fixed texts of the prompts and of the replies, one symbol per phrase
UserQuestionLabel == Lit(<<"<user question:>", "\n">>)
ContextLabel == Lit(<<"\n", "\n", "<context of the knowledge base:>", "\n">>)
NoContextWarning == Lit(<<"\n", "\n", "<attention: no context was found>">>)
PleaseAsk == Lit(<<"<please ask by text or by voice>">>)
AudioFailed(e) ==
  Lit(<<"<audio was not recognized:>", e.exc, "\n", "\n", "<ask by text>">>)
InternalError(e) ==
  Lit(<<"<internal error>", "\n", "<code>", e.exc, "</code>", "\n", "\n",
        "<check qdrant and key>">>)

\* what open() and the calls of the openai client can raise besides APIError;
\* .strip() of a None content raises AttributeError
FileNotFound == [exc |-> "FileNotFoundError", status_code |-> 0]
AttributeError == [exc |-> "AttributeError", status_code |-> 0]
TranscribeAnswers ==
  {Ok} \cup (IF faults < MaxFaults THEN {APIError, FileNotFound} ELSE {})

\* the classes derived from Exception among those a call can raise
ExceptionClasses ==
  {"APIError", "UnexpectedResponse", "ResponseHandlingException",
   "FileNotFoundError", "AttributeError"}

\* a handler that catches APIError only
CatchesAPIErrorOnly(e) == e.exc = "APIError"

\* except Exception as e
CatchesException(e) == e.exc \in ExceptionClasses

\* a prompt that never carries the warning
UserContentWithContext(question, context) ==
  Cat(Cat(Cat(UserQuestionLabel, question), ContextLabel), context)

\* ask_llm: user_content
UserContent(question, context) ==
  IF context # <<>>
  THEN Cat(Cat(Cat(UserQuestionLabel, question), ContextLabel), context)
  ELSE Cat(Cat(UserQuestionLabel, question), NoContextWarning)

\* "\n".join(parts)
RECURSIVE JoinLines(_)
JoinLines(parts) ==
  IF parts = <<>> THEN <<>>
  ELSE IF Len(parts) = 1 THEN parts[1]
  ELSE Cat(Cat(parts[1], Lit(<<"\n">>)), JoinLines(Tail(parts)))

\* f"{idx}) score={score:.3f}, title={title}"
DebugLine(l) ==
  Cat(Lit(<<Digits[l.idx], ")", " ", "<score>", ",", " ", "<title>">>), l.title)

\* debug_info of search_qdrant as text
DebugText(d) ==
  IF ~d.found THEN Lit(<<"<nothing was found in the collection>">>)
  ELSE Cat(Lit(<<"<found fragments:>", "\n">>),
           JoinLines([i \in 1..Len(d.lines) |-> DebugLine(d.lines[i])]))

\* the reply of handle_query after a completion
Reply(question, answer, context, debug_info) ==
  JoinLines(<<Cat(Cat(Lit(<<"<question:>", " ">>), question), Lit(<<"\n">>)),
              Cat(Lit(<<"<answer:>", "\n">>), answer)>>
            \o (IF context # <<>>
                THEN <<Lit(<<"\n", "-", "-", "-", "\n", "<used context:>", "\n">>),
                       context>>
                ELSE <<>>)
            \o <<Lit(<<"\n", "-", "-", "-", "\n", "<details>", "\n", "\n">>),
                 DebugText(debug_info),
                 Lit(<<"\n", "</details>">>)>>)

\* handle_query returns msg
Return(h, msg, cs) ==
  /\ hq' = [h EXCEPT !.returned = <<msg>>]
  /\ End("returned", cs, qdrant)

\* e is raised inside the outer try of handle_query
Except(h, e, cs) ==
  IF CatchesException(e)
  THEN Return(h, InternalError(e), cs)
  ELSE /\ hq' = h
       /\ End("raised:handle_query", cs, qdrant)

HandleQueryStart ==
  /\ Begin("handle_query", "question", 0)
  /\ \E text_question \in TextQuestions, audio_file \in AudioFiles :
       hq' = [NoQuery EXCEPT !.text_question = text_question,
                             !.audio_file = audio_file]
  /\ UNCHANGED scr

\* step 1: the question, typed or spoken
HandleQueryQuestion ==
  /\ script = "handle_query" /\ pc = "question"
  /\ LET typed == Strip(OrEmpty(hq.text_question))
         go(q, cs) == /\ hq' = [hq EXCEPT !.question = q]
                      /\ Continue("search", cs, qdrant)
     IN IF typed = <<>> /\ OrEmpty(hq.audio_file) # <<>>
        THEN \E got \in TranscribeAnswers :
               LET cs == Append(calls, Call("transcribe", got, 0))
               IN /\ faults' = IF got = Ok THEN faults ELSE faults + 1
                  /\ IF got # Ok
                     THEN Return(hq, AudioFailed(got), cs)
                     ELSE \E heard \in Transcripts :
                            IF Strip(heard) = <<>>
                            THEN Return(hq, PleaseAsk, cs)
                            ELSE go(Strip(heard), cs)
        ELSE /\ faults' = faults
             /\ IF typed = <<>>
                THEN Return(hq, PleaseAsk, calls)
                ELSE go(typed, calls)
  /\ UNCHANGED <<files, runs, uuids, locals, items, mismatch, result, scr>>

\* step 2: context, debug_info = search_qdrant(question)
HandleQuerySearch ==
  /\ script = "handle_query" /\ pc = "search"
  /\ \E emb \in EmbedAnswers :
       LET cs == Append(calls, Call("embed", emb, 0))
       IN IF emb # Ok
          THEN /\ faults' = Fault(emb)
               /\ Except(hq, emb, cs)
          ELSE \E got \in (IF qdrant.exists THEN {Ok} ELSE {NotFound}) \cup MayFail :
                 /\ faults' = Fault(got)
                 /\ IF got # Ok
                    THEN Except(hq, got, Append(cs, Call("query_points", got, 0)))
                    ELSE \E res_points \in
                              QueryPoints(qdrant, Embedding(hq.question), TOP_K) :
                           /\ hq' = [hq EXCEPT
                                  !.context =
                                     <<SearchResult(qdrant, res_points).context>>,
                                  !.debug_info =
                                     SearchResult(qdrant, res_points).debug_info]
                           /\ Continue("ask",
                                       Append(cs, Call("query_points", got,
                                                       Len(res_points))), qdrant)
  /\ UNCHANGED <<files, runs, uuids, locals, items, mismatch, result, scr>>

\* steps 3 and 4: answer = ask_llm(question, context), then the reply
HandleQueryAsk ==
  /\ script = "handle_query" /\ pc = "ask"
  /\ \E got \in EmbedAnswers :
       LET cs == Append(calls, Call("chat", got, 0))
           h == [hq EXCEPT !.user_content =
                              <<UserContent(hq.question, hq.context[1])>>]
       IN /\ faults' = Fault(got)
          /\ IF got # Ok
             THEN Except(h, got, cs)
             ELSE \E content \in Completions :
                    IF content = <<>>
                    THEN Except(h, AttributeError, cs)
                    ELSE Return(h, Reply(hq.question, Strip(content[1]),
                                         hq.context[1], hq.debug_info), cs)
  /\ UNCHANGED <<files, runs, uuids, locals, items, mismatch, result, scr>>

\* the demo: the knowledge base is loaded by ingest_qdrant.py, questions are asked
NextDemo ==
  \/ IngestDocumentsStart /\ UNCHANGED <<hq, scr>>
  \/ EnsureCollectionLocal /\ UNCHANGED <<hq, scr>>
  \/ IngestDocumentsEmbed /\ UNCHANGED <<hq, scr>>
  \/ IngestDocumentsUpsert /\ UNCHANGED <<hq, scr>>
  \/ SearchStart /\ UNCHANGED <<hq, scr>>
  \/ SearchQdrant /\ UNCHANGED <<hq, scr>>
  \/ HandleQueryStart
  \/ HandleQueryQuestion
  \/ HandleQuerySearch
  \/ HandleQueryAsk

\* the demo does not read tokens/: it is taken empty
InitDemo == Init /\ files = <<>>

SpecDemo == InitDemo /\ [][NextDemo]_vars

\* ------------------------------------------------------- parser_moedelo.py: main
\* what session.get and raise_for_status can raise
HTTPError == [exc |-> "HTTPError", status_code |-> 500]
ConnectionError == [exc |-> "ConnectionError", status_code |-> 0]
RequestAnswers ==
  {Ok} \cup (IF faults < MaxFaults THEN {HTTPError, ConnectionError} ELSE {})

\* the title of the i-th link: collect_article_links keeps titles of 10 characters
\* or more
Title(i) == <<(<<"t", 9 + i>>)>>

\* extract_article_text(resp.text): nothing, a text one character short, texts kept
ArticleTexts ==
  {<<>>, <<(<<"a", MIN_TEXT_LEN - 1>>)>>, <<(<<"a", MIN_TEXT_LEN>>)>>, T_long}

\* title.replace("\n", " ")
RECURSIVE ReplaceNewlines(_)
ReplaceNewlines(s) ==
  IF s = <<>> THEN <<>>
  ELSE Cat(<<(<<IF Head(s)[1] = "\n" THEN " " ELSE Head(s)[1], Head(s)[2]>>)>>,
           ReplaceNewlines(Tail(s)))

\* what save_article writes: safe_title + "\n\n", then content
ArticleFile(title, content) ==
  Cat(Cat(Strip(ReplaceNewlines(title)), Lit(<<"\n", "\n">>)), content)

\* os.path.join(OUTPUT_DIR, f"moedelo_article_{index:02d}.txt")
ArticlePath(index) ==
  Lit(<<"t", "o", "k", "e", "n", "s", "/", "moedelo_article_", "0", Digits[index],
        ".", "t", "x", "t">>)

\* tokens/ and the articles on it after save_article(title, content, index): the
\* file of that index is replaced, or it is added where its name sorts
SaveArticle(fs, disk, title, content, index) ==
  LET base == Len(fs) - Len(disk)
      k == Cardinality({j \in DOMAIN disk : disk[j] < index})
      written == ArticleFile(title, content)
  IN IF \E j \in DOMAIN disk : disk[j] = index
     THEN [files |-> [fs EXCEPT ![base + k + 1] = written], disk |-> disk]
     ELSE [files |-> SubSeq(fs, 1, base + k) \o <<written>>
                       \o SubSeq(fs, base + k + 1, Len(fs)),
           disk |-> SubSeq(disk, 1, k) \o <<index>> \o SubSeq(disk, k + 1, Len(disk))]

\* an article was requested; the program slept
Fetch(i) == [op |-> "get", i |-> i, seconds |-> 0]
Sleep(i) == [op |-> "sleep", i |-> i, seconds |-> SLEEP_BETWEEN_REQUESTS]

ParserStart ==
  /\ Begin("parser_moedelo", "collect", 0)
  /\ scr' = [NoScrape EXCEPT !.disk = scr.disk]
  /\ UNCHANGED hq

\* articles = collect_article_links(session, limit=30); if not articles: return
ParserCollect ==
  /\ script = "parser_moedelo" /\ pc = "collect"
  /\ \E got \in RequestAnswers :
       LET cs == Append(calls, Call("get_list", got, 0))
       IN /\ faults' = IF got = Ok THEN faults ELSE faults + 1
          /\ IF got # Ok
             THEN /\ scr' = scr
                  /\ End("raised:collect_article_links", cs, qdrant)
             ELSE \E n \in 0..MaxArticles :
                    /\ scr' = [scr EXCEPT !.articles = n]
                    /\ IF n = 0
                       THEN End("returned", cs, qdrant)
                       ELSE Continue("articles", cs, qdrant)
  /\ UNCHANGED <<files, runs, uuids, locals, items, mismatch, result, hq>>

\* one pass of `for i, (url, title) in enumerate(articles, start=1)`
ParserArticle ==
  /\ script = "parser_moedelo" /\ pc = "articles"
  /\ scr.i < scr.articles
  /\ LET i == scr.i + 1
         skipped == [scr EXCEPT !.i = i, !.log = Append(@, Fetch(i))]
     IN \E got \in RequestAnswers :
          /\ faults' = IF got = Ok THEN faults ELSE faults + 1
          /\ Continue("articles", Append(calls, Call("get", got, i)), qdrant)
          /\ IF got # Ok
             THEN scr' = skipped /\ files' = files
             ELSE \E body \in ArticleTexts :
                    IF body = <<>> \/ StrLen(body) < MIN_TEXT_LEN
                    THEN scr' = skipped /\ files' = files
                    ELSE LET saved == SaveArticle(files, scr.disk, Title(i), body, i)
                         IN /\ files' = saved.files
                            /\ scr' = [scr EXCEPT
                                   !.i = i,
                                   !.saved_paths = Append(@, ArticlePath(i)),
                                   !.disk = saved.disk,
                                   !.log = @ \o <<Fetch(i), Sleep(i)>>]
  /\ UNCHANGED <<runs, uuids, locals, items, mismatch, result, hq>>

\* the loop is over: the summary is printed
ParserReturn ==
  /\ script = "parser_moedelo" /\ pc = "articles"
  /\ scr.i = scr.articles
  /\ faults' = faults
  /\ End("returned", calls, qdrant)
  /\ UNCHANGED <<files, runs, uuids, locals, items, mismatch, result, hq, scr>>

NextParser ==
  \/ ParserStart
  \/ ParserCollect
  \/ ParserArticle
  \/ ParserReturn

\* the scraper does not use the vector store: the collection is taken absent
InitParser == Init /\ qdrant = NoCollection

SpecParser == InitParser /\ [][NextParser]_vars

\* ===================================================================== claims
Ingestion == {"ingest_files", "ingest_documents"}

\* the script the calls, items and outcome belong to
LastScript ==
  IF script # "none" THEN script
  ELSE IF hist = <<>> THEN "none" ELSE hist[Len(hist)].script

Finished == pc = "idle" /\ hist # <<>>

\* a pass of the while loop of split_text is being taken
LoopPass == pc = "while" /\ pc' = "while" /\ Len(chunks') = Len(chunks) + 1

\* C1: consecutive chunks of split_text overlap by exactly CHUNK_OVERLAP characters:
\* whenever a chunk is followed by another one, that one starts CHUNK_OVERLAP
\* characters before the end of the first (stated for the chunks that are longer
\* than CHUNK_OVERLAP, where such a start is ahead of the chunk's own).
C1_ConsecutiveChunksOverlap ==
  [][(/\ LoopPass /\ start' < StrLen(text)
      /\ Window(text, start).end - CHUNK_OVERLAP > start)
       => start' = Window(text, start).end - CHUNK_OVERLAP]_vars

\* C2: every pass of the while loop of split_text moves start strictly forward
\* (so the loop ends), also after a window that holds no space but its first
\* character.
C2_CursorStrictlyIncreases == [][LoopPass => start' > start]_vars

\* C3: every chunk of split_text has between 1 and CHUNK_SIZE characters, and a
\* text that normalizes to the empty string gives no chunk.
C3_ChunkLengthBounds ==
  LastScript = "ingest_files" =>
    /\ \A i \in DOMAIN chunks :
         1 <= StrLen(chunks[i]) /\ StrLen(chunks[i]) <= CHUNK_SIZE
    /\ text = <<>> => chunks = <<>>

\* C4: in ingest_files and in ingest_documents, when only embedding calls failed,
\* the run still returns and its upsert writes one point per item but the failed.
C4_EmbeddingFailureSkipsOnlyThatItem ==
  (/\ Finished /\ LastScript \in Ingestion
   /\ Count(calls, "embed", FALSE) > 0
   /\ \A i \in DOMAIN calls : calls[i].op # "embed" => calls[i].ok)
  => /\ outcome = "returned"
     /\ \E i \in DOMAIN calls :
          /\ calls[i].op = "upsert"
          /\ calls[i].n = items - Count(calls, "embed", FALSE)

\* C5: in both ensure_collection implementations, when get_collection fails with
\* anything but not-found, the failure reaches the caller and create_collection is
\* not called.
C5_OnlyNotFoundMeansAbsent ==
  LastScript \in Ingestion =>
    \A i \in DOMAIN calls :
      (calls[i].op = "get_collection" /\ calls[i].answer \in Failures)
      => /\ outcome = "raised:get_collection"
         /\ \A j \in DOMAIN calls : calls[j].op # "create_collection"

\* C6: ensure_collection of ingest_files, called while the collection exists,
\* issues no create and leaves the collection as it is, whatever its dimension (a
\* mismatch is only printed); no ensure_collection changes a collection that
\* exists; the collection is created at most once unless the reset script deleted
\* it; and only create_collection_moedelo deletes or recreates it.
C6_EnsureKeepsExistingCollection ==
  /\ [][(pc = "ensure" /\ qdrant.exists)
         => /\ qdrant' = qdrant
            /\ (script = "ingest_files"
                 => /\ \A j \in DOMAIN calls' : calls'[j].op # "create_collection"
                    /\ (pc' = "glob" => mismatch' = (qdrant.size # EMBEDDING_DIM)))]_vars
  /\ [][(qdrant'.deletes # qdrant.deletes
          \/ (qdrant.exists /\ qdrant'.creates # qdrant.creates)
          \/ (qdrant.exists /\ ~qdrant'.exists))
         => script = "create_collection_moedelo"]_vars
  /\ [](qdrant.creates <= 1 + qdrant.deletes)

\* ensure_collection of ingest_files has found a collection that holds points
C6_Witness ==
  /\ script = "ingest_files" /\ pc = "glob"
  /\ NPoints(qdrant) > 0
  /\ Len(calls) = 1 /\ calls[1].op = "get_collection" /\ calls[1].ok

\* C7: once an ingestion run has stored a sentence as a document, search_qdrant
\* with that sentence and top_k = 1 returns a context that contains the sentence.
C7_RoundTrip ==
  (/\ result.status = "returned" /\ result.top_k = 1
   /\ \E id \in DOMAIN qdrant.points :
        qdrant.points[id].vector = Embedding(result.query_text))
  => Contains(result.context, result.query_text)

\* C8: a second run of the same ingestion script on the same documents, all
\* embeddings succeeding in both, leaves as many points as the first run left.
C8_RerunDoesNotGrow ==
  \A i \in 1..(Len(hist) - 1) :
    (/\ hist[i].script \in Ingestion /\ hist[i + 1].script = hist[i].script
     /\ hist[i].docs = hist[i + 1].docs
     /\ hist[i].outcome = "returned" /\ hist[i + 1].outcome = "returned"
     /\ hist[i].failed = 0 /\ hist[i + 1].failed = 0)
    => hist[i + 1].npoints = hist[i].npoints

\* C9: the ids of one batch are pairwise different, and no step stores under an
\* id of the collection a chunk other than the one that id holds.
C9_PointIdsUniquePerChunk ==
  /\ [](\A i, j \in DOMAIN ids : ids[i] = ids[j] => i = j)
  /\ [](\A i, j \in DOMAIN points : points[i].id = points[j].id => i = j)
  /\ [][\A id \in DOMAIN qdrant.points \cap DOMAIN qdrant'.points :
          qdrant'.points[id].payload = qdrant.points[id].payload]_vars

\* the calls of the current or last run keep the order ensure, embeddings, upsert
CallsInOrder ==
  /\ \A i, j \in DOMAIN calls :
       (calls[i].op \in {"get_collection", "create_collection"}
        /\ calls[j].op \in {"embed", "upsert"}) => i < j
  /\ (\E j \in DOMAIN calls : calls[j].op \in {"embed", "upsert"})
       => \E i \in DOMAIN calls :
            calls[i].ok /\ calls[i].op \in {"get_collection", "create_collection"}
  /\ \A i \in DOMAIN calls :
       calls[i].op = "upsert"
       => /\ i = Len(calls)
          /\ calls[i].n = Count(calls, "embed", TRUE)
EqualLengths ==
  LastScript = "ingest_files"
  => Len(ids) = Len(vectors) /\ Len(vectors) = Len(payloads)
NUpserts == Count(calls, "upsert", TRUE) + Count(calls, "upsert", FALSE)

\* C10, as claimed, for the runs that return: ensure_collection comes before the
\* first embedding, exactly one upsert is issued, after the last embedding and with
\* all the points built, and ids, vectors and payloads are equally long.
C10_ExactlyOneUpsert ==
  (Finished /\ LastScript \in Ingestion /\ outcome = "returned")
  => CallsInOrder /\ EqualLengths /\ NUpserts = 1

\* C10, amended: ensure_collection comes before the first embedding; at most one
\* upsert is issued, as the last call and with all the points built; a run that
\* returns has issued exactly one, but ingest_files issues none when it finds no
\* file; ids, vectors and payloads are equally long at every moment.
C10_AtMostOneUpsertLast ==
  LastScript \in Ingestion
  => /\ CallsInOrder /\ EqualLengths /\ NUpserts <= 1
     /\ (Finished /\ outcome = "returned")
        => NUpserts = (IF LastScript = "ingest_files" /\ paths = <<>> THEN 0 ELSE 1)

\* ingest_files has returned after an embedding failed and another succeeded
C10_Witness ==
  /\ Finished /\ LastScript = "ingest_files" /\ outcome = "returned"
  /\ Count(calls, "embed", FALSE) >= 1 /\ Count(calls, "embed", TRUE) >= 1
  /\ NUpserts = 1

\* the trace search_qdrant gives when nothing was found
NothingFound == [found |-> FALSE, lines |-> <<>>]

\* the current or last run made the call op
Did(op) == \E i \in DOMAIN calls : calls[i].op = op

\* the nearest-neighbour search of the current or last run answered with no point
ZeroPoints ==
  \E i \in DOMAIN calls :
    calls[i].op = "query_points" /\ calls[i].ok /\ calls[i].n = 0

\* C11: when the search answers with zero points, search_qdrant returns the empty
\* context and the trace "nothing found" and does not raise; the user prompt
\* ask_llm sends carries the warning that no context was found exactly when the
\* context is empty, and a prompt is sent with every call of the completion.
C11_EmptyContextIsFlagged ==
  /\ (LastScript = "search_qdrant" /\ ZeroPoints)
     => /\ outcome = "returned" /\ result.status = "returned"
        /\ result.context = <<>> /\ result.debug_info = NothingFound
  /\ (LastScript = "handle_query" /\ ZeroPoints)
     => /\ outcome \in {"running", "returned"}
        /\ hq.context = <<(<<>>)>> /\ hq.debug_info = NothingFound
  /\ (LastScript = "handle_query" /\ Did("chat")) => hq.user_content # <<>>
  /\ hq.user_content # <<>>
     => /\ hq.context # <<>>
        /\ Contains(hq.user_content[1], hq.question)
        /\ Contains(hq.user_content[1], NoContextWarning) <=> hq.context[1] = <<>>
        /\ hq.context[1] # <<>> => Contains(hq.user_content[1], hq.context[1])

\* handle_query found nothing in an empty collection and ask_llm sent the warning
C11_Witness ==
  /\ LastScript = "handle_query" /\ Finished /\ ZeroPoints
  /\ \E i \in DOMAIN calls : calls[i].op = "chat" /\ calls[i].ok
  /\ hq.context = <<(<<>>)>>
  /\ Contains(hq.user_content[1], NoContextWarning)

\* a prompt was sent with a context that was found, and without the warning
C11_WithContext ==
  /\ LastScript = "handle_query" /\ Finished /\ Did("chat")
  /\ hq.context # <<(<<>>)>>
  /\ ~Contains(hq.user_content[1], NoContextWarning)

\* the question handle_query has before it listens to the audio
Typed == Strip(OrEmpty(hq.text_question))

TranscriptionFailed ==
  \E i \in DOMAIN calls : calls[i].op = "transcribe" /\ ~calls[i].ok

\* C12: every run of handle_query ends by returning a message that is not empty,
\* whatever was given and whichever call failed; when the stripped question is
\* empty and no audio is given, or when the transcription fails, the run makes no
\* call of the embedding, of the search or of the completion and does not pass the
\* first step; the audio is transcribed only when the stripped question is empty.
C12_HandleQueryAlwaysReturns ==
  LastScript = "handle_query"
  => /\ outcome \in {"running", "returned"}
     /\ Finished => hq.returned # <<>> /\ hq.returned[1] # <<>>
     /\ ((Typed = <<>> /\ OrEmpty(hq.audio_file) = <<>>) \/ TranscriptionFailed)
        => /\ ~Did("embed") /\ ~Did("query_points") /\ ~Did("chat")
           /\ pc \in {"question", "idle"}
     /\ Did("transcribe") => Typed = <<>> /\ OrEmpty(hq.audio_file) # <<>>
     /\ (\E i \in DOMAIN calls : ~calls[i].ok) => pc = "idle"

\* handle_query has returned its message after the vector search failed
C12_Witness ==
  /\ LastScript = "handle_query" /\ Finished /\ outcome = "returned"
  /\ \E i \in DOMAIN calls : calls[i].op = "query_points" /\ ~calls[i].ok
  /\ hq.returned # <<>>

\* handle_query has returned after the transcription failed
C12_TranscriptionFailed ==
  /\ LastScript = "handle_query" /\ Finished /\ TranscriptionFailed
  /\ hq.returned # <<>>

\* C13: in one run of the scraper no request of an article follows the request of
\* the article before it without a sleep of SLEEP_BETWEEN_REQUESTS between them.
C13_SleepBetweenFetches ==
  \A k \in 1..(Len(scr.log) - 1) :
    scr.log[k].op = "get" => scr.log[k + 1].op = "sleep"

====
